---- MODULE Spec2Model ----
(***************************************************************************)
(* Flight Deal Finder (src/main.py): a batch job that loads its state,     *)
(* drains the Telegram command queue, searches deals for every approved    *)
(* user and saves the state.  Python dicts are modelled as functions       *)
(* whose DOMAIN is the set of keys present.                                 *)
(***************************************************************************)
EXTENDS Integers, Sequences, FiniteSets, TLC

VARIABLES
    cfg,       \* the result of load_config(), the same in every run
    file,      \* state.json beside the script: <<>> (absent, or left empty by
               \* a save cut short, which does not parse) or <<document>>
    gist,      \* state.json of the gist: <<>> (absent) or <<document>>
    inbox,     \* the updates queued on the Telegram server, oldest first
    issued,    \* the number of updates the server has created
    pc,        \* where main() stands: idle (not running), poll, commands, search
    state,     \* the `state` dict of the running main()
    batch,     \* the updates of this run not handled yet
    todo,      \* the users of this run not searched yet
    last_upd,  \* the update handled by the last step (update_id 0: none)
    replies,   \* the sends attempted while that update was handled
    searched,  \* the searches of this run: chat_id, feed pattern, length of
               \* the ledger before the search, outcome, length of the text sent
    notified,  \* the fingerprints of all_new of the last search, in order
    handled,   \* update_id -> how many times the update loop handled it
    runs       \* the number of runs started

vars == <<cfg, file, gist, inbox, issued, pc, state, batch, todo,
          last_upd, replies, searched, notified, handled, runs>>

---------------------------------------------------------------------------
(* Bounds of the model *)

\* number of invocations of main() in a behaviour
MaxRuns == 2
\* number of inbound Telegram messages in a behaviour
MaxUpdates == 2
\* the threshold function is compared over the durations 0, 15, .., 15 * MaxDur
MaxDur == 10

---------------------------------------------------------------------------
(* dict helpers *)

EmptyDict == [k \in {} |-> 0]

Get(d, k, default) == IF k \in DOMAIN d THEN d[k] ELSE default

Put(d, k, v) == [x \in (DOMAIN d) \cup {k} |-> IF x = k THEN v ELSE d[x]]

Pop(d, k) == [x \in (DOMAIN d) \ {k} |-> d[x]]

\* state["users"][chat_id][k] = v: the key k of the record is written,
\* created when the record has none
PutUserKey(st, chat_id, k, v) ==
    [st EXCEPT !.users = Put(st.users, chat_id, Put(st.users[chat_id], k, v))]

\* s.update(o)
Update(s, o) == [x \in (DOMAIN s) \cup (DOMAIN o) |-> IF x \in DOMAIN o THEN o[x] ELSE s[x]]

\* the last n elements of a list: lst[-n:]
Tail_n(lst, n) == IF Len(lst) <= n THEN lst ELSE SubSeq(lst, Len(lst) - n + 1, Len(lst))

---------------------------------------------------------------------------
(* Config & defaults *)

DEFAULT_USER_SETTINGS ==
    [k \in {"origin", "days_ahead", "base_price_eur", "base_duration_minutes",
            "price_increment_eur", "increment_minutes", "currency", "market",
            "limit", "direct_only"} |->
        CASE k = "origin" -> "BUD"
          [] k = "days_ahead" -> 3
          [] k = "base_price_eur" -> 20
          [] k = "base_duration_minutes" -> 90
          [] k = "price_increment_eur" -> 10
          [] k = "increment_minutes" -> 30
          [] k = "currency" -> "eur"
          [] k = "market" -> "hu"
          [] k = "limit" -> 100
          [] k = "direct_only" -> FALSE]

\* the result of load_config(): the keys main() and its callees read.
\* GH_TOKEN is an environment variable read by save_state.
Config(admin, bot, gistid, gh) ==
    [aviasales_token |-> "A", telegram_bot_token |-> bot,
     admin_chat_id |-> admin, gist_id |-> gistid, GH_TOKEN |-> gh]

empty_state == [users |-> EmptyDict, order |-> <<>>, pending |-> EmptyDict,
                last_update_id |-> 0]

\* a fresh user record, as written by /approve and by main()
UserRecord(name, settings, sent) ==
    [name |-> name, settings |-> settings, sent_deals |-> sent]

\* state["users"][k] = rec, keeping dict insertion order
SetUser(st, k, rec) ==
    [st EXCEPT !.users = Put(st.users, k, rec),
               !.order = IF k \in DOMAIN st.users THEN st.order ELSE Append(st.order, k)]

---------------------------------------------------------------------------
(* State persistence *)

IsNewFormat(doc) == "users" \in DOMAIN doc /\ "pending" \in DOMAIN doc

migrate_state(doc, c) ==
    LET admin_id == c.admin_chat_id IN
    IF IsNewFormat(doc)
    THEN IF admin_id # "" /\ admin_id \notin DOMAIN doc.users
         THEN SetUser(Pop(Pop(doc, "settings"), "sent_deals"), admin_id,
                      UserRecord("Admin", Get(doc, "settings", EmptyDict),
                                 Get(doc, "sent_deals", <<>>)))
         ELSE doc
    ELSE LET new_state == [empty_state EXCEPT
                             !.last_update_id = Get(doc, "last_update_id", 0)]
         IN IF admin_id # ""
            THEN SetUser(new_state, admin_id,
                         UserRecord("Admin", Get(doc, "settings", EmptyDict),
                                    Get(doc, "sent_deals", <<>>)))
            ELSE new_state

\* gist_ok: the GET of the gist succeeded and its content parsed.
\* f, g: the local file and the gist, each <<>> (absent) or <<doc>>.
load_state(c, f, g, gist_ok) ==
    IF c.gist_id # "" /\ gist_ok /\ g # <<>>
    THEN migrate_state(g[1], c)
    ELSE IF f # <<>>
         THEN migrate_state(f[1], c)
         ELSE migrate_state(empty_state, c)

---------------------------------------------------------------------------
(* Helpers *)

\* hashlib.md5(f"{origin}-{destination}-{departure_at}-{price}")[:12]: the
\* digest is a function of the four key fields, taken to be collision-free.
deal_hash(deal) == <<deal.origin, deal.destination, deal.departure_at, deal.price>>

\* a rounding that drops the started step
CeilDiv_floor(a, b) == a \div b

\* math.ceil(a / b) for b > 0
CeilDiv(a, b) == -((-a) \div b)

max_price_for_duration(duration_minutes, s) ==
    LET base_price == Get(s, "base_price_eur", 20)
        base_dur == Get(s, "base_duration_minutes", 90)
        increment == Get(s, "price_increment_eur", 10)
        step == Get(s, "increment_minutes", 30)
    IN IF duration_minutes <= base_dur
       THEN base_price
       ELSE base_price + CeilDiv(duration_minutes - base_dur, step) * increment

\* merged default + user settings
user_settings(st, chat_id) ==
    LET user == Get(st.users, chat_id, EmptyDict)
    IN Update(DEFAULT_USER_SETTINGS, Get(user, "settings", EmptyDict))

---------------------------------------------------------------------------
(* Telegram *)

FOOTER == "\n\n_by aboutmisha.com_"

\* text += FOOTER: the length of the text handed to sendMessage
sent_len(text_len) == text_len + Len(FOOTER)

\* send_tg: the sends it attempts (none without a bot token or a recipient).
\* A send is recorded by its recipient and the kind of text.
send_tg(kind, chat_id, c) ==
    IF c.telegram_bot_token = "" \/ chat_id = ""
    THEN <<>>
    ELSE <<[to |-> chat_id, kind |-> kind]>>

\* command name -> (settings key, parser)
COMMAND_MAP ==
    [k \in {"/origin", "/days", "/price", "/duration", "/increment"} |->
        CASE k = "/origin" -> [key |-> "origin", typ |-> "str"]
          [] k = "/days" -> [key |-> "days_ahead", typ |-> "int"]
          [] k = "/price" -> [key |-> "base_price_eur", typ |-> "int"]
          [] k = "/duration" -> [key |-> "base_duration_minutes", typ |-> "int"]
          [] k = "/increment" -> [key |-> "price_increment_eur", typ |-> "int"]]

\* int(arg) on the argument strings of the model; any other string raises ValueError
IntOf ==
    [a \in {"1", "2", "3", "6", "25", "60", "-10", "0"} |->
        CASE a = "1" -> 1 [] a = "2" -> 2 [] a = "3" -> 3 [] a = "6" -> 6
          [] a = "25" -> 25 [] a = "60" -> 60 [] a = "-10" -> -10 [] a = "0" -> 0]

\* arg.upper() on the argument strings of the model
Upper(a) == CASE a = "vie" -> "VIE" [] a = "abc" -> "ABC" [] a = "eur" -> "EUR"
              [] OTHER -> a

\* text.startswith("/") for the first word of a message
SlashWords == {"/start", "/help", "/settings", "/origin", "/days", "/price",
               "/duration", "/increment", "/direct", "/reset", "/approve",
               "/reject", "/users", "/foo", "/START", "/direct@dealsbot"}

\* parts[0].lower().split("@")[0]
CmdOf(w) == CASE w = "/START" -> "/start"
              [] w = "/direct@dealsbot" -> "/direct"
              [] OTHER -> w

\* the result of handling one update: the new state and the sends attempted
Result(st, sends) == [state |-> st, replies |-> sends]

\* cmd_start that files a request at every /start of an unapproved sender
cmd_start_always_registers(st, chat_id, is_admin, is_approved, upd, c) ==
    IF is_approved
    THEN Result(st, send_tg(IF is_admin THEN "help_admin" ELSE "help", chat_id, c))
    ELSE Result([st EXCEPT !.pending =
                    Put(st.pending, chat_id,
                        [name |-> upd.first_name, username |-> upd.username])],
                send_tg("request_sent", chat_id, c)
                \o send_tg("new_request", c.admin_chat_id, c))

\* /start: registration flow
cmd_start(st, chat_id, is_admin, is_approved, upd, c) ==
    IF is_approved
    THEN Result(st, send_tg(IF is_admin THEN "help_admin" ELSE "help", chat_id, c))
    ELSE IF chat_id \in DOMAIN Get(st, "pending", EmptyDict)
         THEN Result(st, send_tg("already_pending", chat_id, c))
         ELSE Result(Put(st, "pending",
                         Put(Get(st, "pending", EmptyDict), chat_id,
                             [name |-> upd.first_name, username |-> upd.username])),
                     send_tg("request_sent", chat_id, c)
                     \o send_tg("new_request", c.admin_chat_id, c))

\* /direct toggle
cmd_direct(st, chat_id, c) ==
    LET settings == Get(st.users[chat_id], "settings", EmptyDict)
        current == Get(settings, "direct_only", DEFAULT_USER_SETTINGS["direct_only"])
    IN Result(PutUserKey(st, chat_id, "settings", Put(settings, "direct_only", ~current)),
              send_tg(IF ~current THEN "direct_on" ELSE "direct_off", chat_id, c))

\* cmd_reset that drops the settings with the history
cmd_reset_clears_settings(st, chat_id, c) ==
    Result([st EXCEPT !.users[chat_id] = UserRecord(@.name, EmptyDict, <<>>)],
           send_tg("history_cleared", chat_id, c))

\* /reset
cmd_reset(st, chat_id, c) ==
    Result(PutUserKey(st, chat_id, "sent_deals", <<>>),
           send_tg("history_cleared", chat_id, c))

\* the argument is stored as it came when it does not parse
cmd_setting_stores_raw(st, chat_id, cmd, arg, c) ==
    IF arg = ""
    THEN Result(st, send_tg("usage", chat_id, c))
    ELSE Result([st EXCEPT !.users[chat_id].settings =
                    Put(st.users[chat_id].settings, COMMAND_MAP[cmd].key,
                        IF COMMAND_MAP[cmd].typ = "str" THEN Upper(arg)
                        ELSE IF arg \in DOMAIN IntOf THEN IntOf[arg] ELSE arg)],
                send_tg(IF COMMAND_MAP[cmd].typ = "int" /\ arg \notin DOMAIN IntOf
                        THEN "value_error" ELSE "setting_ok", chat_id, c))

\* setting commands of COMMAND_MAP
cmd_setting(st, chat_id, cmd, arg, c) ==
    LET key == COMMAND_MAP[cmd].key
        typ == COMMAND_MAP[cmd].typ
    IN IF arg = ""
       THEN Result(st, send_tg("usage", chat_id, c))
       ELSE IF typ = "int" /\ arg \notin DOMAIN IntOf
            THEN Result(st, send_tg("value_error", chat_id, c))
            ELSE LET val == IF typ = "str" THEN Upper(arg) ELSE IntOf[arg]
                 IN Result(PutUserKey(st, chat_id, "settings",
                                      Put(Get(st.users[chat_id], "settings", EmptyDict),
                                          key, val)),
                           send_tg("setting_ok", chat_id, c))

\* cmd_approve that leaves the request in pending
cmd_approve_keeps_pending(st, chat_id, arg, c) ==
    IF arg = ""
    THEN Result(st, send_tg("usage", chat_id, c))
    ELSE IF arg \in DOMAIN st.pending
         THEN Result(SetUser(st, arg, UserRecord(st.pending[arg].name, EmptyDict, <<>>)),
                     send_tg("approved_admin", chat_id, c)
                     \o send_tg("approved_user", arg, c))
         ELSE Result(st, send_tg("not_found", chat_id, c))

\* cmd_approve that creates the user whether or not a request is pending
cmd_approve_creates_unseen(st, chat_id, arg, c) ==
    IF arg = ""
    THEN Result(st, send_tg("usage", chat_id, c))
    ELSE Result(SetUser([st EXCEPT !.pending = Pop(st.pending, arg)], arg,
                        UserRecord("?", EmptyDict, <<>>)),
                send_tg("approved_admin", chat_id, c)
                \o send_tg("approved_user", arg, c))

\* /approve <chat_id>, admin only
cmd_approve(st, chat_id, arg, c) ==
    IF arg = ""
    THEN Result(st, send_tg("usage", chat_id, c))
    ELSE IF arg \in DOMAIN Get(st, "pending", EmptyDict)
         THEN LET info == st.pending[arg]
                  popped == [st EXCEPT !.pending = Pop(st.pending, arg)]
              IN Result(SetUser(popped, arg,
                                UserRecord(Get(info, "name", "?"), EmptyDict, <<>>)),
                        send_tg("approved_admin", chat_id, c)
                        \o send_tg("approved_user", arg, c))
         ELSE Result(st, send_tg("not_found", chat_id, c))

\* cmd_reject that keeps the request on record
cmd_reject_keeps_record(st, chat_id, arg, c) ==
    IF arg = ""
    THEN Result(st, send_tg("usage", chat_id, c))
    ELSE IF arg \in DOMAIN st.pending
         THEN Result([st EXCEPT !.pending[arg].name = "rejected"],
                     send_tg("rejected_admin", chat_id, c)
                     \o send_tg("rejected_user", arg, c))
         ELSE Result(st, send_tg("not_found", chat_id, c))

\* /reject <chat_id>, admin only
cmd_reject(st, chat_id, arg, c) ==
    IF arg = ""
    THEN Result(st, send_tg("usage", chat_id, c))
    ELSE IF arg \in DOMAIN Get(st, "pending", EmptyDict)
         THEN Result([st EXCEPT !.pending = Pop(st.pending, arg)],
                     send_tg("rejected_admin", chat_id, c)
                     \o send_tg("rejected_user", arg, c))
         ELSE Result(st, send_tg("not_found", chat_id, c))

\* every approved sender passes for the admin
IsAdmin_anyone(chat_id, c) == TRUE

\* is_admin = chat_id == admin_id
IsAdmin(chat_id, c) == chat_id = c.admin_chat_id

\* a command of an unapproved sender files a request like /start
deny_registers(st, chat_id, c) ==
    Result(Put(st, "pending",
               Put(Get(st, "pending", EmptyDict), chat_id,
                   [name |-> "?", username |-> ""])),
           send_tg("request_sent", chat_id, c))

\* commands only for approved users: the access-denied reply
deny(st, chat_id, c) == Result(st, send_tg("not_authorized", chat_id, c))

\* is_approved = chat_id in state["users"]
IsApproved(chat_id, st) == chat_id \in DOMAIN st.users

\* the cursor is left where it was
set_cursor_never(st0, upd) == st0

\* state["last_update_id"] = upd["update_id"]
set_cursor(st0, upd) == Put(st0, "last_update_id", upd.update_id)

\* the body of the loop over updates in process_telegram_commands
process_update(st0, upd, c) ==
    LET st == set_cursor(st0, upd)
        chat_id == upd.chat_id
        parts == upd.text
    IN IF chat_id = "" THEN Result(st, <<>>)
       ELSE IF parts = <<>> \/ parts[1] \notin SlashWords THEN Result(st, <<>>)
       ELSE
        LET cmd == CmdOf(parts[1])
            arg == IF Len(parts) > 1 THEN parts[2] ELSE ""
            is_admin == IsAdmin(chat_id, c)
            is_approved == IsApproved(chat_id, st)
        IN IF cmd = "/start"
              THEN cmd_start(st, chat_id, is_admin, is_approved, upd, c)
           ELSE IF ~is_approved
              THEN deny(st, chat_id, c)
           ELSE IF cmd = "/help"
              THEN Result(st, send_tg(IF is_admin THEN "help_admin" ELSE "help", chat_id, c))
           ELSE IF cmd = "/settings"
              THEN Result(st, send_tg("settings", chat_id, c))
           ELSE IF cmd = "/direct"
              THEN cmd_direct(st, chat_id, c)
           ELSE IF cmd = "/reset"
              THEN cmd_reset(st, chat_id, c)
           ELSE IF cmd \in DOMAIN COMMAND_MAP
              THEN cmd_setting(st, chat_id, cmd, arg, c)
           ELSE IF cmd = "/approve" /\ is_admin
              THEN cmd_approve(st, chat_id, arg, c)
           ELSE IF cmd = "/reject" /\ is_admin
              THEN cmd_reject(st, chat_id, arg, c)
           ELSE IF cmd = "/users" /\ is_admin
              THEN Result(st, send_tg("users", chat_id, c))
           ELSE Result(st, send_tg("unknown_command", chat_id, c))

---------------------------------------------------------------------------
(* Aviasales API *)

\* a ledger of half the size
LedgerCap_halved == 500 \div 2

\* sent_list[-500:]: the ledger keeps the last LedgerCap fingerprints
LedgerCap == 500

\* fetch_flights on one HTTP response of the price source.  A response is
\* [status, success, data]; status "error" stands for an unreachable host, a
\* timeout or a non-2xx answer, on which requests raises.
fetch_raises(resp) == resp.status = "error"

fetch_flights(resp) == IF ~resp.success THEN <<>> ELSE resp.data

TicketDuration(t) ==
    LET a == Get(t, "duration_to", 0)
    IN IF a # 0 THEN a ELSE Get(t, "duration", 0)

\* every ticket with a duration counts as a deal
IsDeal_ignores_threshold(t, s) == TicketDuration(t) > 0

IsDeal(t, s) ==
    /\ TicketDuration(t) > 0
    /\ Get(t, "price", 0) <= max_price_for_duration(TicketDuration(t), s)

MakeDeal(t, s) ==
    [origin |-> Get(t, "origin", Get(s, "origin", "?")),
     destination |-> Get(t, "destination", "???"),
     departure_at |-> Get(t, "departure_at", ""),
     price |-> Get(t, "price", 0),
     currency |-> Upper(Get(s, "currency", "eur")),
     duration_min |-> TicketDuration(t),
     threshold |-> max_price_for_duration(TicketDuration(t), s),
     airline |-> Get(t, "airline", ""),
     flight_number |-> Get(t, "flight_number", ""),
     transfers |-> Get(t, "transfers", 0),
     link |-> Get(t, "link", "")]

filter_deals(tickets, s) ==
    LET kept == SelectSeq(tickets, LAMBDA t : IsDeal(t, s))
    IN [i \in 1..Len(kept) |-> MakeDeal(kept[i], s)]

\* len(str(n))
StrLen(n) == Len(ToString(n))

\* whether a field of a deal is a string (the defaults "" and "???" of
\* filter_deals) or a number of the model
IsStr(v) == SubSeq(ToString(v), 1, 1) = "\""

\* len(format_deal(d)).  The airports of destination of the model stand for
\* IATA codes (3 characters) and its days of departure for ISO timestamps,
\* of which format_deal keeps the first 16 characters; an empty
\* departure_at prints as "?".
format_deal_len(d) ==
    LET dur_h == d.duration_min \div 60
        destination == IF IsStr(d.destination) THEN Len(d.destination) ELSE 3
        dep == IF IsStr(d.departure_at)
               THEN IF d.departure_at = "" THEN Len("?")
                    ELSE IF Len(d.departure_at) < 16 THEN Len(d.departure_at) ELSE 16
               ELSE 16
        stops == IF d.transfers = 0 THEN Len("direct")
                 ELSE StrLen(d.transfers) + Len(" stop(s)")
        link == IF d.link = "" THEN 0
                ELSE 1 + Len("https://www.aviasales.com") + Len(d.link)
    IN (3 + Len(d.origin) + 3 + destination + 1)
       + (3 + dep + 3 + StrLen(dur_h) + 1 + 2 + 1 + 3 + stops + 1)
       + (5 + StrLen(d.price) + 1 + Len(d.currency) + Len(" (limit ")
            + StrLen(d.threshold) + 1 + Len(d.currency) + 1 + 1)
       + (3 + Len(d.airline) + 1 + Len(d.flight_number) + link)

\* sum of format_deal_len over deals[lo..hi]
RECURSIVE SumLen(_, _, _)
SumLen(deals, lo, hi) ==
    IF lo > hi THEN 0
    ELSE IF lo = hi THEN format_deal_len(deals[lo])
    ELSE LET mid == (lo + hi) \div 2
         IN SumLen(deals, lo, mid) + SumLen(deals, mid + 1, hi)

---------------------------------------------------------------------------
(* Search per user *)

Range(f) == {f[i] : i \in DOMAIN f}

\* the deals of one day that are not in sent_hashes
NewOfDay(resp, s, sent_hashes) ==
    SelectSeq(filter_deals(fetch_flights(resp), s),
              LAMBDA d : deal_hash(d) \notin sent_hashes)

\* all_new after the loop over range(days_ahead); feed[delta + 1] is the
\* response to the query for day today + delta
RECURSIVE CollectNew(_, _, _, _)
CollectNew(feed, n, s, sent_hashes) ==
    IF n <= 0 THEN <<>>
    ELSE CollectNew(feed, n - 1, s, sent_hashes) \o NewOfDay(feed[n], s, sent_hashes)

\* all_new.sort(key=lambda d: d["price"]): stable, ascending by price
RECURSIVE SortPrices(_, _)
SortPrices(deals, prices) ==
    IF prices = {} THEN <<>>
    ELSE LET p == CHOOSE x \in prices : \A y \in prices : x <= y
         IN SelectSeq(deals, LAMBDA d : d.price = p) \o SortPrices(deals, prices \ {p})

sort_by_price(deals) == SortPrices(deals, {deals[i].price : i \in DOMAIN deals})

Hashes(deals) == [i \in 1..Len(deals) |-> deal_hash(deals[i])]

\* the truncation keeps the oldest entries: (sent_list + hashes)[:500]
extend_ledger_keeps_oldest(sent_list, hashes) ==
    SubSeq(sent_list \o hashes, 1,
           IF Len(sent_list) + Len(hashes) < LedgerCap
           THEN Len(sent_list) + Len(hashes) ELSE LedgerCap)

\* user_data["sent_deals"] = (sent_list + hashes)[-500:]
extend_ledger(sent_list, hashes) == Tail_n(sent_list \o hashes, LedgerCap)

\* if len(text) > 4096: text = text[:4090] + "\n…"
truncate(text_len) == IF text_len > 4096 THEN 4090 + 2 ELSE text_len

\* len(header + body) of the notification of the deals all_new (not empty):
\* the header "🔥 {n} new cheap flight(s)!\n\n", the deals joined by "\n\n"
notification_len(all_new) ==
    (2 + StrLen(Len(all_new)) + Len(" new cheap flight(s)!") + 2)
    + SumLen(all_new, 1, Len(all_new)) + 2 * (Len(all_new) - 1)

\* search_for_user.  feed: the responses of the price source, one per day
\* queried; delivered: whether the POST of sendMessage went through.
\* Result: raised (an exception left the function), the new state, the new
\* deals in notification order, what became of the notification and the
\* length of the text handed to sendMessage (0: none was).
search_for_user(chat_id, st, c, feed, delivered) ==
    LET s == user_settings(st, chat_id)
        user_data == st.users[chat_id]
        sent_list == Get(user_data, "sent_deals", <<>>)
        sent_hashes == Range(sent_list)
        days_ahead == Get(s, "days_ahead", 3)
        failing == {i \in 1..days_ahead : fetch_raises(feed[i])}
        all_new == sort_by_price(CollectNew(feed, days_ahead, s, sent_hashes))
    IN IF failing # {}
       THEN [raised |-> TRUE, state |-> st, new |-> <<>>, outcome |-> "raised",
             text_len |-> 0]
       ELSE IF all_new = <<>>
       THEN [raised |-> FALSE, state |-> st, new |-> <<>>, outcome |-> "nothing",
             text_len |-> 0]
       ELSE [raised |-> FALSE,
             state |-> PutUserKey(st, chat_id, "sent_deals",
                                  extend_ledger(sent_list, Hashes(all_new))),
             new |-> all_new,
             outcome |-> IF send_tg("deals", chat_id, c) = <<>> THEN "no_transport"
                         ELSE IF delivered THEN "sent" ELSE "send_failed",
             text_len |-> IF send_tg("deals", chat_id, c) = <<>> THEN 0
                          ELSE sent_len(truncate(notification_len(all_new)))]

---------------------------------------------------------------------------
(* The price source: the responses the searches of the model receive.      *)
(* Airports of destination are numbered; departure_at is the day queried.  *)

Today == 0

Ticket(o, dest, day, price, airline) ==
    [k \in {"origin", "destination", "departure_at", "price", "airline"} |->
        CASE k = "origin" -> o
          [] k = "destination" -> dest
          [] k = "departure_at" -> day
          [] k = "price" -> price
          [] k = "airline" -> airline]

\* five tickets: a deal (18 EUR, 80 min), the same flight sold by another
\* airline, a deal above the base duration (35 EUR, 125 min), a ticket over
\* its threshold (50 EUR, 100 min) and a ticket without duration
FewTickets(o, day) ==
    << Put(Ticket(o, 1, day, 18, "W6"), "duration_to", 80),
       Put(Ticket(o, 1, day, 18, "FR"), "duration_to", 80),
       Put(Ticket(o, 2, day, 35, "W6"), "duration", 125),
       Put(Ticket(o, 3, day, 50, "W6"), "duration_to", 100),
       Put(Ticket(o, 4, day, 5, "W6"), "duration", 0) >>

\* n distinct one-hour flights at the same price
BulkTickets(o, day, n, price) ==
    [i \in 1..n |-> Put(Ticket(o, 10 + i, day, price, "W6"), "duration_to", 60)]

Response(kind, o, day, limit) ==
    CASE kind = "error" -> [status |-> "error", success |-> FALSE, data |-> <<>>]
      [] kind = "nosuccess" -> [status |-> "ok", success |-> FALSE,
                                data |-> FewTickets(o, day)]
      [] kind = "empty" -> [status |-> "ok", success |-> TRUE, data |-> <<>>]
      [] kind = "few" -> [status |-> "ok", success |-> TRUE, data |-> FewTickets(o, day)]
      [] kind = "bulk" -> [status |-> "ok", success |-> TRUE,
                           data |-> BulkTickets(o, day, limit, 10)]
      [] kind = "bulk2" -> [status |-> "ok", success |-> TRUE,
                            data |-> BulkTickets(o, day, limit, 9)]

\* the responses to the queries of one search: pattern[1] answers the query
\* for today, pattern[2] the queries for the following days
Feed(pattern, s) ==
    [i \in 1..Get(s, "days_ahead", 3) |->
        Response(IF i = 1 THEN pattern[1] ELSE pattern[2],
                 s["origin"], Today + i - 1, Get(s, "limit", 100))]

---------------------------------------------------------------------------
(* The Telegram server: updates stay queued until a getUpdates call with   *)
(* an offset above their update_id confirms them.                          *)

Msg(chat_id, text) ==
    [chat_id |-> chat_id, text |-> text,
     first_name |-> CASE chat_id = "1" -> "Misha" [] chat_id = "2" -> "Ann"
                      [] OTHER -> "Bob",
     username |-> IF chat_id = "2" THEN "ann" ELSE ""]

WithId(m, id) ==
    [update_id |-> id, chat_id |-> m.chat_id, text |-> m.text,
     first_name |-> m.first_name, username |-> m.username]

NoUpdate == WithId(Msg("", <<>>), 0)

\* getUpdates(offset): the queued updates with update_id >= offset
getUpdates(queue, offset) == SelectSeq(queue, LAMBDA u : u.update_id >= offset)

---------------------------------------------------------------------------
(* Main: one run is MainLoad, GetUpdates, ProcessUpdate for every update   *)
(* fetched, SearchUser for every user, SaveState.                          *)

\* lines 534-537 of main(): ensure admin is in users
ensure_admin(st, c) ==
    IF c.admin_chat_id # "" /\ c.admin_chat_id \notin DOMAIN st.users
    THEN SetUser(st, c.admin_chat_id, UserRecord("Admin", EmptyDict, <<>>))
    ELSE st

InitWith(Cfgs, Seeds) ==
    /\ cfg \in Cfgs
    /\ \E seed \in Seeds :
          IF cfg.gist_id # "" THEN gist = seed /\ file = <<>>
                              ELSE gist = <<>> /\ file = seed
    /\ inbox = <<>>
    /\ issued = 0
    /\ pc = "idle"
    /\ state = empty_state
    /\ batch = <<>>
    /\ todo = <<>>
    /\ last_upd = NoUpdate
    /\ replies = <<>>
    /\ searched = <<>>
    /\ notified = <<>>
    /\ handled = [i \in 1..MaxUpdates |-> 0]
    /\ runs = 0

\* a user sends a message to the bot (between two runs: a message sent
\* during a run is seen by the next getUpdates all the same)
Arrive(m) ==
    /\ pc = "idle"
    /\ issued < MaxUpdates
    /\ inbox' = Append(inbox, WithId(m, issued + 1))
    /\ issued' = issued + 1
    /\ UNCHANGED <<cfg, file, gist, pc, state, batch, todo, last_upd, replies, searched,
                   notified, handled, runs>>

\* main() up to the call of process_telegram_commands
MainLoad ==
    /\ pc = "idle"
    /\ runs < MaxRuns
    /\ cfg.aviasales_token # ""
    /\ \E gist_ok \in BOOLEAN :
          state' = ensure_admin(load_state(cfg, file, gist, gist_ok), cfg)
    /\ pc' = "poll"
    /\ runs' = runs + 1
    /\ batch' = <<>>
    /\ todo' = <<>>
    /\ last_upd' = NoUpdate
    /\ replies' = <<>>
    /\ searched' = <<>>
    /\ notified' = <<>>
    /\ UNCHANGED <<cfg, file, gist, inbox, issued, handled>>

\* process_telegram_commands up to its loop: the getUpdates call
GetUpdates ==
    /\ pc = "poll"
    /\ \E ok \in BOOLEAN :
          LET offset == Get(state, "last_update_id", 0) + 1
              got == IF cfg.telegram_bot_token # "" /\ ok
                     THEN getUpdates(inbox, offset) ELSE <<>>
          IN /\ batch' = got
             /\ inbox' = IF cfg.telegram_bot_token # "" /\ ok
                         THEN getUpdates(inbox, offset) ELSE inbox
             /\ pc' = IF got = <<>> THEN "search" ELSE "commands"
             /\ todo' = IF got = <<>> THEN state.order ELSE <<>>
    /\ UNCHANGED <<cfg, file, gist, issued, state, last_upd, replies, searched, notified,
                   handled, runs>>

\* one iteration of the loop over updates
ProcessUpdate ==
    /\ pc = "commands"
    /\ batch # <<>>
    /\ LET upd == Head(batch)
           r == process_update(state, upd, cfg)
       IN /\ state' = r.state
          /\ last_upd' = upd
          /\ replies' = r.replies
          /\ handled' = [handled EXCEPT ![upd.update_id] = @ + 1]
          /\ batch' = Tail(batch)
          /\ pc' = IF Tail(batch) = <<>> THEN "search" ELSE "commands"
          /\ todo' = IF Tail(batch) = <<>> THEN r.state.order ELSE <<>>
    /\ UNCHANGED <<cfg, file, gist, inbox, issued, searched, notified, runs>>

\* the loop over users without its try/except: an exception of
\* search_for_user ends main()
SearchUser_uncaught(pattern) ==
    /\ pc = "search"
    /\ todo # <<>>
    /\ \E delivered \in BOOLEAN :
          LET chat_id == Head(todo)
              feed == Feed(pattern, user_settings(state, chat_id))
              r == search_for_user(chat_id, state, cfg, feed, delivered)
          IN /\ state' = IF r.raised THEN empty_state ELSE r.state
             /\ pc' = IF r.raised THEN "idle" ELSE pc
             /\ todo' = IF r.raised THEN <<>> ELSE Tail(todo)
             /\ notified' = Hashes(r.new)
             /\ searched' = Append(searched, [chat_id |-> chat_id,
                                              pattern |-> pattern,
                                              had |-> Len(Get(state.users[chat_id], "sent_deals", <<>>)),
                                              outcome |-> r.outcome,
                                              text_len |-> r.text_len])
    /\ last_upd' = NoUpdate
    /\ replies' = <<>>
    /\ UNCHANGED <<cfg, file, gist, inbox, issued, batch, handled, runs>>

\* one iteration of the loop over users: search_for_user under try/except
SearchUser(pattern) ==
    /\ pc = "search"
    /\ todo # <<>>
    /\ \E delivered \in BOOLEAN :
          LET chat_id == Head(todo)
              feed == Feed(pattern, user_settings(state, chat_id))
              r == search_for_user(chat_id, state, cfg, feed, delivered)
          IN /\ state' = IF r.raised THEN state ELSE r.state
             /\ notified' = Hashes(r.new)
             /\ searched' = Append(searched, [chat_id |-> chat_id,
                                              pattern |-> pattern,
                                              had |-> Len(Get(state.users[chat_id], "sent_deals", <<>>)),
                                              outcome |-> r.outcome,
                                              text_len |-> r.text_len])
    /\ todo' = Tail(todo)
    /\ last_upd' = NoUpdate
    /\ replies' = <<>>
    /\ UNCHANGED <<cfg, file, gist, inbox, issued, pc, batch, handled, runs>>

\* save_state: the local file is written, then the gist is patched
\* g: the gist before the call; patch_ok: the PATCH went through
save_state(st, c, g, patch_ok) ==
    [file |-> <<st>>,
     gist |-> IF c.gist_id # "" /\ c.GH_TOKEN # "" /\ patch_ok THEN <<st>> ELSE g]

SaveState ==
    /\ pc = "search"
    /\ todo = <<>>
    /\ \E patch_ok \in BOOLEAN :
          /\ file' = save_state(state, cfg, gist, patch_ok).file
          /\ gist' = save_state(state, cfg, gist, patch_ok).gist
    /\ pc' = "idle"
    /\ state' = empty_state
    /\ last_upd' = NoUpdate
    /\ replies' = <<>>
    /\ searched' = <<>>
    /\ notified' = <<>>
    /\ UNCHANGED <<cfg, inbox, issued, batch, todo, handled, runs>>

\* the process ends before save_state (killed, or an exception main() does
\* not catch): what it held in memory is lost
Crash ==
    /\ pc # "idle"
    /\ pc' = "idle"
    /\ state' = empty_state
    /\ batch' = <<>>
    /\ todo' = <<>>
    /\ last_upd' = NoUpdate
    /\ replies' = <<>>
    /\ searched' = <<>>
    /\ notified' = <<>>
    /\ UNCHANGED <<cfg, file, gist, inbox, issued, handled, runs>>

\* the process is killed inside save_state, after open(STATE_PATH, "w") has
\* truncated state.json and before the content is flushed: the file is left
\* empty, the gist is not patched, what the run held in memory is lost
KilledInSave ==
    /\ pc = "search"
    /\ todo = <<>>
    /\ file' = <<>>
    /\ pc' = "idle"
    /\ state' = empty_state
    /\ last_upd' = NoUpdate
    /\ replies' = <<>>
    /\ searched' = <<>>
    /\ notified' = <<>>
    /\ UNCHANGED <<cfg, gist, inbox, issued, batch, todo, handled, runs>>

---------------------------------------------------------------------------
(* Specification of the access state machine: every command source, the   *)
(* price source returns no ticket                                          *)

Cfgs == { Config("1", "T", "G", "H"), Config("1", "T", "", ""),
          Config("", "T", "", "") }

\* a state saved by an earlier deployment: the admin and one approved user
SeedDoc ==
    [users |-> [k \in {"1", "2"} |->
                  UserRecord(IF k = "1" THEN "Admin" ELSE "Ann", EmptyDict, <<>>)],
     order |-> <<"1", "2">>, pending |-> EmptyDict, last_update_id |-> 0]

Seeds == { <<>>, <<SeedDoc>> }

Msgs == { Msg("2", <<"/start">>), Msg("3", <<"/start">>),
          Msg("1", <<"/approve", "2">>), Msg("1", <<"/reject", "3">>),
          Msg("2", <<"/approve", "3">>), Msg("3", <<"/reject", "3">>),
          Msg("1", <<"/increment", "-10">>), Msg("2", <<"/direct">>) }

Patterns == { <<"empty", "empty">> }

Init == InitWith(Cfgs, Seeds)

Next ==
    \/ \E m \in Msgs : Arrive(m)
    \/ MainLoad
    \/ GetUpdates
    \/ ProcessUpdate
    \/ \E p \in Patterns : SearchUser(p)
    \/ SaveState
    \/ KilledInSave
    \/ Crash

Spec == Init /\ [][Next]_vars

---------------------------------------------------------------------------
(* Specification of the searches: two approved users, a price source that *)
(* returns deals, nothing or an error, a send that may fail                *)

CfgsSearch == { Config("1", "T", "", ""), Config("1", "", "", "") }

SeedsSearch == { <<SeedDoc>> }

MsgsSearch == { Msg("2", <<"/reset">>), Msg("1", <<"/days", "1">>) }

PatternsSearch == { <<"few", "empty">>, <<"few", "error">>, <<"empty", "empty">> }

InitSearch == InitWith(CfgsSearch, SeedsSearch)

NextSearch ==
    \/ \E m \in MsgsSearch : Arrive(m)
    \/ MainLoad
    \/ GetUpdates
    \/ ProcessUpdate
    \/ \E p \in PatternsSearch : SearchUser(p)
    \/ SaveState
    \/ KilledInSave
    \/ Crash

SpecSearch == InitSearch /\ [][NextSearch]_vars

---------------------------------------------------------------------------
(* Specification of the ledger: searches that return full result pages *)

CfgsLedger == { Config("1", "T", "", "") }

\* a state file of the single-user version of the script
LegacyDoc ==
    [sent_deals |-> << <<"BUD", 1, Today, 18>> >>,
     settings |-> [k \in {"base_price_eur"} |-> 25],
     last_update_id |-> 0]

SeedsLedger == { <<>>, <<LegacyDoc>> }

MsgsLedger == { Msg("1", <<"/days", "6">>) }

PatternsLedger == { <<"bulk", "bulk">>, <<"bulk2", "bulk2">>, <<"few", "empty">> }

InitLedger == InitWith(CfgsLedger, SeedsLedger)

NextLedger ==
    \/ \E m \in MsgsLedger : Arrive(m)
    \/ MainLoad
    \/ GetUpdates
    \/ ProcessUpdate
    \/ \E p \in PatternsLedger : SearchUser(p)
    \/ SaveState

SpecLedger == InitLedger /\ [][NextLedger]_vars

---------------------------------------------------------------------------
(* Specification of the registration: identities that are unknown or      *)
(* pending, and the admin commands that resolve requests                   *)

CfgsRegistration == { Config("1", "T", "", "") }

\* a saved state: the admin, an approved user with settings of her own and
\* a ledger, and one pending request
PendingDoc ==
    [users |-> [k \in {"1", "2"} |->
                  IF k = "1" THEN UserRecord("Admin", EmptyDict, <<>>)
                  ELSE UserRecord("Ann",
                                  [x \in {"origin", "direct_only"} |->
                                      IF x = "origin" THEN "VIE" ELSE TRUE],
                                  << <<"VIE", 1, Today, 18>>, <<"VIE", 9, Today, 12>> >>)],
     order |-> <<"1", "2">>,
     pending |-> [k \in {"3"} |-> [name |-> "Bob", username |-> ""]],
     last_update_id |-> 0]

SeedsRegistration == { <<>>, <<PendingDoc>> }

MsgsRegistration ==
    { Msg("3", <<"/start">>), Msg("1", <<"/approve", "3">>),
      Msg("1", <<"/reject", "3">>), Msg("1", <<"/approve", "2">>),
      Msg("1", <<"/approve", "4">>), Msg("3", <<"/days", "1">>),
      Msg("3", <<"/reset">>), Msg("3", <<"/approve", "3">>),
      Msg("3", <<"/reject", "3">>), Msg("3", <<"/users">>) }

InitRegistration == InitWith(CfgsRegistration, SeedsRegistration)

NextRegistration ==
    \/ \E m \in MsgsRegistration : Arrive(m)
    \/ MainLoad
    \/ GetUpdates
    \/ ProcessUpdate
    \/ \E p \in Patterns : SearchUser(p)
    \/ SaveState
    \/ KilledInSave
    \/ Crash

SpecRegistration == InitRegistration /\ [][NextRegistration]_vars

---------------------------------------------------------------------------
(* Specification of the settings commands of an approved user, with       *)
(* well-formed and malformed arguments, and of updates without effect      *)

SeedsSettings == { <<PendingDoc>> }

MsgsSettings ==
    { Msg("2", <<"/days", "abc">>), Msg("2", <<"/price", "1.5">>),
      Msg("2", <<"/duration", "abc">>), Msg("2", <<"/increment", "1.5">>),
      Msg("2", <<"/origin", "abc">>), Msg("2", <<"/days", "1">>),
      Msg("2", <<"/price", "25">>), Msg("2", <<"/duration", "60">>),
      Msg("2", <<"/increment", "6">>), Msg("2", <<"/direct">>),
      Msg("2", <<"/reset">>), Msg("2", <<"hello">>), Msg("", <<>>) }

InitSettings == InitWith(CfgsRegistration, SeedsSettings)

NextSettings ==
    \/ \E m \in MsgsSettings : Arrive(m)
    \/ MainLoad
    \/ GetUpdates
    \/ ProcessUpdate
    \/ \E p \in Patterns : SearchUser(p)
    \/ SaveState

SpecSettings == InitSettings /\ [][NextSettings]_vars

---------------------------------------------------------------------------
(* Specification of the thresholds: commands that move the threshold, an  *)
(* approval, and searches that return deals                                *)

\* a state file of the single-user version with a step of its own
LegacyStepDoc ==
    [sent_deals |-> <<>>,
     settings |-> [k \in {"base_duration_minutes", "increment_minutes"} |->
                     IF k = "base_duration_minutes" THEN 60 ELSE 15],
     last_update_id |-> 0]

SeedsDeals == { <<PendingDoc>>, <<LegacyStepDoc>> }

MsgsDeals ==
    { Msg("2", <<"/price", "60">>), Msg("2", <<"/price", "1">>),
      Msg("2", <<"/duration", "60">>), Msg("1", <<"/increment", "6">>),
      Msg("1", <<"/duration", "0">>), Msg("1", <<"/approve", "3">>) }

PatternsDeals == { <<"few", "empty">> }

InitDeals == InitWith(CfgsRegistration, SeedsDeals)

NextDeals ==
    \/ \E m \in MsgsDeals : Arrive(m)
    \/ MainLoad
    \/ GetUpdates
    \/ ProcessUpdate
    \/ \E p \in PatternsDeals : SearchUser(p)
    \/ SaveState

SpecDeals == InitDeals /\ [][NextDeals]_vars

---------------------------------------------------------------------------
(* Claims *)

Disjoint(doc) ==
    IsNewFormat(doc) => (DOMAIN doc.pending) \cap (DOMAIN doc.users) = {}

\* C1: in the running state and in both saved documents, no chat id is a key
\* of both `pending` and `users`.
C1_PendingUsersDisjoint ==
    /\ Disjoint(state)
    /\ file # <<>> => Disjoint(file[1])
    /\ gist # <<>> => Disjoint(gist[1])

\* an admin /approve has just moved a pending identity to users
C1_Witness ==
    /\ pc # "idle"
    /\ last_upd.text = <<"/approve", "2">>
    /\ \E i \in DOMAIN replies : replies[i] = [to |-> "2", kind |-> "approved_user"]
    /\ "2" \in DOMAIN state.users
    /\ "2" \notin DOMAIN state.pending

IsResolve(upd) ==
    /\ upd.text # <<>>
    /\ upd.text[1] \in SlashWords
    /\ CmdOf(upd.text[1]) \in {"/approve", "/reject"}

\* C2: while a run lasts, (a) handling a /approve or /reject sent by anyone
\* but the configured admin leaves `pending` and `users` unchanged, and (b) an
\* identity leaves `pending` only in the step that handles an admin-sent
\* /approve or /reject naming it.
C2_OnlyAdminResolves ==
    [][ (pc # "idle" /\ pc' # "idle") =>
          /\ (pc = "commands" /\ IsResolve(Head(batch))
                /\ Head(batch).chat_id # cfg.admin_chat_id)
             => (state'.pending = state.pending /\ state'.users = state.users)
          /\ \A id \in (DOMAIN state.pending) \ (DOMAIN state'.pending) :
                /\ pc = "commands"
                /\ IsResolve(Head(batch))
                /\ Head(batch).chat_id = cfg.admin_chat_id
                /\ Len(Head(batch).text) > 1
                /\ Head(batch).text[2] = id
          /\ \A id \in (DOMAIN state'.users) \ (DOMAIN state.users) :
                /\ pc = "commands"
                /\ IsResolve(Head(batch))
                /\ Head(batch).chat_id = cfg.admin_chat_id
                /\ Head(batch).text = <<"/approve", id>>
      ]_vars

\* an approved user who is not the admin has sent /approve for a pending
\* identity, which is still pending
C2_Witness ==
    /\ pc # "idle"
    /\ last_upd.chat_id = "2"
    /\ last_upd.text = <<"/approve", "3">>
    /\ cfg.admin_chat_id = "1"
    /\ "2" \in DOMAIN state.users
    /\ "3" \in DOMAIN state.pending
    /\ "3" \notin DOMAIN state.users

\* C3: no update is handled by the update loop more than once, over all runs.
C3_HandledAtMostOnce == \A i \in DOMAIN handled : handled[i] <= 1

LastSearch == searched[Len(searched)]

Ledger(chat_id) == state.users[chat_id].sent_deals

\* the new deals of a search of chat_id in the running state that receives
\* the responses of its last search again
NewAgain(chat_id, pattern) ==
    search_for_user(chat_id, state, cfg,
                    Feed(pattern, user_settings(state, chat_id)), TRUE).new

NewAgainLast == NewAgain(LastSearch.chat_id, LastSearch.pattern)

\* C4 as stated: after a search that notified the user and marked the deals
\* sent, a search on the identical responses finds no new deal.
C4_NoNewDealsOnRerun ==
    (pc = "search" /\ searched # <<>> /\ LastSearch.outcome = "sent")
    => NewAgainLast = <<>>

\* C4 amended: the same, for a search that extended the ledger without
\* exceeding its capacity (|L| + k <= 500, no fingerprint evicted).
C4_NoNewDealsOnRerunWithinCap ==
    (pc = "search" /\ searched # <<>> /\ LastSearch.outcome = "sent"
       /\ LastSearch.had + Len(notified) <= 500)
    => NewAgainLast = <<>>

\* a search has notified three new deals on top of a ledger of 300, and a
\* search on the same responses finds nothing new
C4_Witness ==
    /\ pc = "search"
    /\ searched # <<>>
    /\ LastSearch.outcome = "sent"
    /\ Len(notified) = 3
    /\ Len(Ledger(LastSearch.chat_id)) = 303
    /\ NewAgainLast = <<>>

\* C5: after a search whose notification was not sent (the send failed, or no
\* bot token is configured), none of its new deals is in the user's ledger.
C5_LedgerOnlyAfterSend ==
    (pc = "search" /\ searched # <<>>
       /\ LastSearch.outcome \in {"send_failed", "no_transport"})
    => Range(notified) \cap Range(Ledger(LastSearch.chat_id)) = {}

\* C6: the new deals of a search that notified the user carry pairwise
\* distinct fingerprints (so do the fingerprints it appended to the ledger).
C6_NoDuplicateNotified ==
    (pc = "search" /\ searched # <<>> /\ LastSearch.outcome = "sent")
    => \A i, j \in DOMAIN notified : i # j => notified[i] # notified[j]

\* C7: a search that found new deals leaves as the user's ledger the last
\* min(500, |L| + k) elements of L followed by the k new fingerprints in
\* notification order.
C7_LedgerFifo ==
    [][ (pc = "search" /\ todo # <<>> /\ Len(searched') = Len(searched) + 1
           /\ notified' # <<>>)
        => LET L == Ledger(Head(todo))
               N == state'.users[Head(todo)].sent_deals
               A == L \o notified'
           IN /\ Len(N) = (IF Len(A) < 500 THEN Len(A) ELSE 500)
              /\ \A i \in 1..Len(N) : N[i] = A[Len(A) - Len(N) + i] ]_vars

\* the ledger is full after a search that appended fewer than 500
\* fingerprints: the oldest entry was dropped, later old entries are kept
C7_Witness ==
    /\ pc = "search"
    /\ searched # <<>>
    /\ notified # <<>>
    /\ Len(notified) < 500
    /\ Len(Ledger(LastSearch.chat_id)) = 500
    /\ <<"BUD", 11, Today, 10>> \notin Range(Ledger(LastSearch.chat_id))
    /\ Ledger(LastSearch.chat_id)[1] \notin Range(notified)

SearchedIds == [i \in 1..Len(searched) |-> searched[i].chat_id]

\* C8: a search that raises leaves the state as it was and the loop goes on
\* with the next user; in the search loop the users searched and the users
\* still to search are all users of the state; once the loop is over,
\* save_state can run.
C8_FailureIsolated ==
    /\ [][ (pc = "search" /\ todo # <<>>
              /\ Len(searched') = Len(searched) + 1
              /\ searched'[Len(searched')].outcome = "raised")
           => (state' = state /\ todo' = Tail(todo) /\ pc' = "search") ]_vars
    /\ [](pc = "search" => SearchedIds \o todo = state.order)
    /\ [](pc = "search" /\ todo = <<>> => ENABLED SaveState)

\* the search of the first user raised, the second user was then searched
\* and notified, and the loop is over
C8_Witness ==
    /\ pc = "search"
    /\ todo = <<>>
    /\ Len(searched) = 2
    /\ searched[1].outcome = "raised"
    /\ Ledger(searched[1].chat_id) = <<>>
    /\ searched[2].outcome = "sent"
    /\ Ledger(searched[2].chat_id) # <<>>

DealsOfToday(chat_id) ==
    LET s == user_settings(state, chat_id)
    IN Range(Hashes(filter_deals(FewTickets(s["origin"], Today), s)))

\* C9: when the query for today returns deals and a query for a later day
\* fails, the search is not aborted and every deal of today is in the
\* notification or was in the ledger already.
C9_TransientErrorIsEmptyResult ==
    (pc = "search" /\ searched # <<>> /\ LastSearch.pattern = <<"few", "error">>)
    => /\ LastSearch.outcome # "raised"
       /\ DealsOfToday(LastSearch.chat_id)
             \subseteq (Range(notified) \cup Range(Ledger(LastSearch.chat_id)))

Durations == {15 * k : k \in 0..MaxDur}

\* C10: for every user of the running state, the threshold does not decrease
\* as the duration grows.
C10_ThresholdMonotonic ==
    \A u \in DOMAIN state.users : \A d1, d2 \in Durations :
        d1 <= d2 => max_price_for_duration(d1, user_settings(state, u))
                    <= max_price_for_duration(d2, user_settings(state, u))

\* C17: every deal notification handed to sendMessage is at most 4096
\* characters long, footer included.
C17_NotificationWithinCeiling ==
    \A i \in DOMAIN searched : searched[i].text_len <= 4096

\* the least n with n * k >= x, for x >= 0 and k > 0
Ceiling(x, k) == (x + k - 1) \div k

Minutes == 0 .. (15 * MaxDur)

\* C11: for every user, every duration d >= 0 and a step above 0, the
\* threshold is base_price when d <= base_duration and otherwise base_price +
\* ceil((d - base_duration) / step) * increment; the defaults give 30 at 91
\* and 120 minutes and 40 at 121 and 125 minutes.
C11_ThresholdFormula ==
    /\ \A u \in DOMAIN state.users : \A d \in Minutes :
          LET s == user_settings(state, u)
              base_price == s["base_price_eur"]
              base_duration == s["base_duration_minutes"]
              step == s["increment_minutes"]
              increment == s["price_increment_eur"]
          IN step > 0 =>
               max_price_for_duration(d, s) =
                  IF d <= base_duration THEN base_price
                  ELSE base_price + Ceiling(d - base_duration, step) * increment
    /\ \A u \in DOMAIN state.users :
          LET s == user_settings(state, u)
          IN (/\ s["base_price_eur"] = 20
              /\ s["base_duration_minutes"] = 90
              /\ s["increment_minutes"] = 30
              /\ s["price_increment_eur"] = 10)
             => /\ max_price_for_duration(91, s) = 30
                /\ max_price_for_duration(120, s) = 30
                /\ max_price_for_duration(121, s) = 40
                /\ max_price_for_duration(125, s) = 40

\* a run holds a user whose base duration is 60 minutes with a step of 15
\* and an increment of 6: 60 minutes cost 20, 61 cost 26, 125 cost 20 + 5 * 6
C11_Witness ==
    /\ pc = "search"
    /\ \E u \in DOMAIN state.users :
          /\ max_price_for_duration(60, user_settings(state, u)) = 20
          /\ max_price_for_duration(61, user_settings(state, u)) = 26
          /\ user_settings(state, u)["base_duration_minutes"] = 60
          /\ user_settings(state, u)["increment_minutes"] = 15
          /\ user_settings(state, u)["price_increment_eur"] = 6
          /\ max_price_for_duration(125, user_settings(state, u)) = 50

\* the update in hand, while the loop over updates runs
Upd == Head(batch)

\* a step of the loop over updates: Upd is handled
Handling == pc = "commands" /\ batch # <<>> /\ handled' # handled

\* a settings command that takes an integer, with an argument int() rejects
IsMalformed(upd) ==
    /\ Len(upd.text) = 2
    /\ upd.text[1] \in {"/days", "/price", "/duration", "/increment"}
    /\ upd.text[2] \in {"abc", "1.5"}

\* C12: handling a /days, /price, /duration or /increment with a non-integer
\* argument from an approved user sends the value-error reply to the sender
\* and nothing else, and leaves every user record and the pending set
\* unchanged.
C12_MalformedArgumentNoMutation ==
    [][ (Handling /\ IsMalformed(Upd) /\ Upd.chat_id \in DOMAIN state.users)
        => /\ replies' = <<[to |-> Upd.chat_id, kind |-> "value_error"]>>
           /\ state'.users = state.users
           /\ state'.pending = state.pending ]_vars

\* /days abc from an approved user with settings and a ledger of her own has
\* been answered by the value-error reply, after a setting went through
C12_Witness ==
    /\ pc # "idle"
    /\ last_upd.chat_id = "2"
    /\ last_upd.text = <<"/days", "abc">>
    /\ replies = <<[to |-> "2", kind |-> "value_error"]>>
    /\ state.users["2"].settings # EmptyDict
    /\ "days_ahead" \notin DOMAIN state.users["2"].settings
    /\ "base_price_eur" \in DOMAIN state.users["2"].settings
    /\ state.users["2"].sent_deals # <<>>

\* a message that names a command
IsCommand(upd) ==
    /\ upd.chat_id # ""
    /\ upd.text # <<>>
    /\ upd.text[1] \in SlashWords

\* C13: handling any command other than /start from an identity that is not
\* a key of `users` (unknown or pending) sends the access-denied reply to the
\* sender and nothing else, and leaves `users` and `pending` unchanged.
C13_UnapprovedDenied ==
    [][ (Handling /\ IsCommand(Upd) /\ CmdOf(Upd.text[1]) # "/start"
           /\ Upd.chat_id \notin DOMAIN state.users)
        => /\ replies' = <<[to |-> Upd.chat_id, kind |-> "not_authorized"]>>
           /\ state'.users = state.users
           /\ state'.pending = state.pending ]_vars

\* an identity whose request is pending has sent /approve for itself and
\* got the access-denied reply; it is still pending
C13_Witness ==
    /\ pc # "idle"
    /\ last_upd.chat_id = "3"
    /\ last_upd.text = <<"/approve", "3">>
    /\ replies = <<[to |-> "3", kind |-> "not_authorized"]>>
    /\ "3" \in DOMAIN state.pending
    /\ "3" \notin DOMAIN state.users

\* d2 is d1 without the key k
Without(d1, k, d2) ==
    /\ DOMAIN d2 = (DOMAIN d1) \ {k}
    /\ \A x \in DOMAIN d2 : d2[x] = d1[x]

\* C14: handling an admin-sent /approve <id>: when id is not a key of
\* `pending` the admin gets the not-found reply and `users` and `pending` are
\* unchanged; when id is pending it leaves `pending` and becomes a user with
\* empty settings and an empty ledger, all other entries unchanged.
C14_ApproveOnlyPending ==
    [][ (Handling /\ Upd.chat_id = cfg.admin_chat_id
           /\ Len(Upd.text) = 2 /\ Upd.text[1] = "/approve")
        => LET id == Upd.text[2]
           IN IF id \in DOMAIN state.pending
              THEN /\ Without(state.pending, id, state'.pending)
                   /\ id \in DOMAIN state'.users
                   /\ state'.users[id].settings = EmptyDict
                   /\ state'.users[id].sent_deals = <<>>
                   /\ state'.users[id].name = state.pending[id].name
                   /\ Without(state'.users, id, state.users)
              ELSE /\ replies' = <<[to |-> Upd.chat_id, kind |-> "not_found"]>>
                   /\ state'.users = state.users
                   /\ state'.pending = state.pending ]_vars

\* the admin has approved the pending identity 3 and then sent /approve 3
\* again: the second is answered not-found, 3 is a user with empty settings
\* and an empty ledger
C14_Witness ==
    /\ pc # "idle"
    /\ handled[1] = 1
    /\ last_upd.update_id = 2
    /\ last_upd.chat_id = "1"
    /\ last_upd.text = <<"/approve", "3">>
    /\ replies = <<[to |-> "1", kind |-> "not_found"]>>
    /\ "3" \notin DOMAIN state.pending
    /\ "3" \in DOMAIN state.users
    /\ state.users["3"] = UserRecord("Bob", EmptyDict, <<>>)
    /\ file # <<>>
    /\ "3" \in DOMAIN file[1].pending

\* the state after the admin's /reject of chat_id is handled in st
AfterReject(st, chat_id, update_id) ==
    process_update(st, WithId(Msg(cfg.admin_chat_id, <<"/reject", chat_id>>), update_id),
                   cfg).state

\* /start from an identity that is neither a user nor pending
IsFirstContact(upd) ==
    /\ IsCommand(upd)
    /\ CmdOf(upd.text[1]) = "/start"
    /\ upd.chat_id \notin DOMAIN state.users
    /\ upd.chat_id \notin DOMAIN state.pending

\* C15: (a) when /start of an unknown identity X is handled and the admin's
\* /reject X is handled next, `users` and `pending` are what they were before
\* the /start; (b) an admin /reject of a pending X removes X from `pending`,
\* adds nothing to `users` and changes no other entry; (c) in the runs of
\* this specification, where 3 is the only identity that ever asks, the
\* state after the rejection has no pending request and the users of the
\* saved state.
C15_RejectLeavesNoTrace ==
    /\ [][ (Handling /\ IsFirstContact(Upd))
           => LET after == AfterReject(state', Upd.chat_id, Upd.update_id + 1)
              IN /\ Upd.chat_id \in DOMAIN state'.pending
                 /\ after.users = state.users
                 /\ after.pending = state.pending ]_vars
    /\ [][ (Handling /\ Upd.chat_id = cfg.admin_chat_id
              /\ Len(Upd.text) = 2 /\ Upd.text[1] = "/reject"
              /\ Upd.text[2] \in DOMAIN state.pending)
           => /\ Without(state.pending, Upd.text[2], state'.pending)
              /\ state'.users = state.users
              /\ Upd.text[2] \notin DOMAIN state'.users ]_vars
    /\ []( (pc # "idle" /\ last_upd.text = <<"/reject", "3">>
              /\ replies = <<[to |-> "1", kind |-> "rejected_admin"],
                             [to |-> "3", kind |-> "rejected_user"]>>)
           => /\ state.pending = EmptyDict
              /\ state.users = ensure_admin(IF "2" \in DOMAIN state.users
                                            THEN PendingDoc ELSE empty_state,
                                            cfg).users )

\* without a saved state, 3 has sent /start and the admin /reject 3 in the
\* same run: both were told, and the mappings are those of a first run
C15_Witness ==
    /\ pc # "idle"
    /\ runs = 1
    /\ file = <<>>
    /\ handled[1] = 1
    /\ handled[2] = 1
    /\ last_upd.text = <<"/reject", "3">>
    /\ replies = <<[to |-> "1", kind |-> "rejected_admin"],
                   [to |-> "3", kind |-> "rejected_user"]>>
    /\ state.pending = EmptyDict
    /\ DOMAIN state.users = {"1"}

\* C16: handling /start of an identity that is neither a user nor pending
\* adds its request to `pending`, answers the sender and sends one alert to
\* the admin; handling /start of an identity whose request is pending (from
\* this run or from the saved state of an earlier one) only sends the
\* already-pending reply to the sender and leaves `pending` and `users`
\* unchanged.
C16_StartIdempotentWhilePending ==
    /\ [][ (Handling /\ IsFirstContact(Upd))
           => /\ Without(state'.pending, Upd.chat_id, state.pending)
              /\ Upd.chat_id \in DOMAIN state'.pending
              /\ state'.users = state.users
              /\ replies' = <<[to |-> Upd.chat_id, kind |-> "request_sent"],
                              [to |-> cfg.admin_chat_id, kind |-> "new_request"]>>
         ]_vars
    /\ [][ (Handling /\ IsCommand(Upd) /\ CmdOf(Upd.text[1]) = "/start"
              /\ Upd.chat_id \notin DOMAIN state.users
              /\ Upd.chat_id \in DOMAIN state.pending)
           => /\ replies' = <<[to |-> Upd.chat_id, kind |-> "already_pending"]>>
              /\ state'.pending = state.pending
              /\ state'.users = state.users ]_vars

\* without a saved state at first, run 1 has handled update 1 and saved the
\* request of 3; run 2 has handled /start of 3 again: already pending
C16_Witness ==
    /\ pc # "idle"
    /\ runs = 2
    /\ handled[1] = 1
    /\ handled[2] = 1
    /\ "2" \notin DOMAIN state.users
    /\ file # <<>>
    /\ "3" \in DOMAIN file[1].pending
    /\ file[1].last_update_id = 1
    /\ last_upd.update_id = 2
    /\ last_upd.chat_id = "3"
    /\ last_upd.text = <<"/start">>
    /\ replies = <<[to |-> "3", kind |-> "already_pending"]>>
    /\ DOMAIN state.pending = {"3"}

Ids(updates) == {updates[i].update_id : i \in DOMAIN updates}

\* C18: (a) the update handled is the oldest of the batch not handled yet,
\* newer than the one handled before it in this run, and the cursor becomes
\* its id without decreasing; (b) an update without chat id or whose text
\* does not start with "/" changes the cursor only and sends nothing; (c) the
\* cursor never decreases while a run lasts; (d) once the batch is drained
\* the cursor is the highest id of the batch fetched.
C18_CursorFollowsBatch ==
    /\ [][ Handling
           => /\ \A i \in Ids(batch) : Upd.update_id <= i
              /\ last_upd.update_id < Upd.update_id
              /\ state.last_update_id <= Upd.update_id
              /\ state'.last_update_id = Upd.update_id ]_vars
    /\ [][ (Handling /\ ~IsCommand(Upd))
           => /\ state' = [state EXCEPT !.last_update_id = Upd.update_id]
              /\ replies' = <<>> ]_vars
    /\ [][ (pc # "idle" /\ pc' # "idle")
           => state.last_update_id <= state'.last_update_id ]_vars
    /\ []( (pc = "search" /\ searched = <<>> /\ last_upd.update_id # 0)
           => /\ batch = <<>>
              /\ Ids(inbox) # {}
              /\ \A i \in Ids(inbox) : i <= state.last_update_id
              /\ state.last_update_id \in Ids(inbox) )

\* a run has fetched a batch of two updates, one without chat id and one
\* with the text "hello", and drained it: the cursor stands at 2 and the
\* users and the pending set are those of the saved state
C18_Witness ==
    /\ pc = "search"
    /\ searched = <<>>
    /\ Len(inbox) = 2
    /\ inbox[1].chat_id = ""
    /\ inbox[2].text = <<"hello">>
    /\ handled[1] = 1
    /\ handled[2] = 1
    /\ last_upd.update_id = 2
    /\ state.last_update_id = 2
    /\ state.users = PendingDoc.users
    /\ state.pending = PendingDoc.pending

\* the settings key each settings command writes
SettingKey(cmd) ==
    CASE cmd = "/origin" -> "origin"
      [] cmd = "/days" -> "days_ahead"
      [] cmd = "/price" -> "base_price_eur"
      [] cmd = "/duration" -> "base_duration_minutes"
      [] cmd = "/increment" -> "price_increment_eur"
      [] cmd = "/direct" -> "direct_only"

\* new is old with the key k written and every other key as it was
OnlyKeyWritten(old, new, k) ==
    /\ DOMAIN new = (DOMAIN old) \cup {k}
    /\ \A x \in (DOMAIN old) \ {k} : new[x] = old[x]

\* a settings command that goes through: /origin, /days, /price, /duration
\* or /increment with an argument its parser accepts, or /direct
IsSetting(upd) ==
    /\ IsCommand(upd)
    /\ \/ (Len(upd.text) = 2 /\ upd.text[1] = "/origin")
       \/ (Len(upd.text) = 2
             /\ upd.text[1] \in {"/days", "/price", "/duration", "/increment"}
             /\ ~IsMalformed(upd))
       \/ upd.text[1] = "/direct"

\* C19: handling a settings command that goes through from an approved user
\* U writes exactly its key of U's settings (/direct negates the effective
\* direct_only) and leaves U's name and ledger alone; handling /reset from U
\* empties U's ledger and leaves U's name and settings alone; either way
\* every other user record, the set of users and the pending set are
\* unchanged.
C19_SettingsFrame ==
    [][ (Handling /\ IsCommand(Upd) /\ Upd.chat_id \in DOMAIN state.users
           /\ (IsSetting(Upd) \/ Upd.text[1] = "/reset"))
        => LET U == Upd.chat_id
               old == state.users[U]
               new == state'.users[U]
           IN /\ DOMAIN state'.users = DOMAIN state.users
              /\ \A u \in (DOMAIN state.users) \ {U} : state'.users[u] = state.users[u]
              /\ state'.pending = state.pending
              /\ state'.order = state.order
              /\ new.name = old.name
              /\ IF Upd.text[1] = "/reset"
                 THEN new.sent_deals = <<>> /\ new.settings = old.settings
                 ELSE /\ new.sent_deals = old.sent_deals
                      /\ OnlyKeyWritten(old.settings, new.settings,
                                        SettingKey(Upd.text[1]))
                      /\ SettingKey(Upd.text[1]) \in DOMAIN new.settings
                      /\ Upd.text[1] = "/direct"
                         => new.settings["direct_only"]
                              = ~user_settings(state, U)["direct_only"] ]_vars

\* the approved user 2 has sent /price 25 and then /reset: her settings keep
\* origin and direct_only and hold the new price, her ledger is empty, the
\* admin's record and the pending request are as saved
C19_Witness ==
    /\ pc # "idle"
    /\ handled[1] = 1
    /\ last_upd.update_id = 2
    /\ last_upd.chat_id = "2"
    /\ last_upd.text = <<"/reset">>
    /\ DOMAIN state.users["2"].settings = {"origin", "direct_only", "base_price_eur"}
    /\ state.users["2"].settings["origin"] = "VIE"
    /\ state.users["2"].settings["direct_only"] = TRUE
    /\ state.users["2"].settings["base_price_eur"] = 25
    /\ state.users["2"].sent_deals = <<>>
    /\ state.users["2"].name = "Ann"
    /\ state.users["1"] = PendingDoc.users["1"]
    /\ state.pending = PendingDoc.pending

\* a step of the loop over users: Head(todo) is searched
Searching == pc = "search" /\ todo # <<>> /\ Len(searched') = Len(searched) + 1

\* the defaults overlaid with the overrides of the record of chat_id
Effective(chat_id) ==
    [k \in (DOMAIN DEFAULT_USER_SETTINGS) \cup (DOMAIN state.users[chat_id].settings) |->
        IF k \in DOMAIN state.users[chat_id].settings
        THEN state.users[chat_id].settings[k]
        ELSE DEFAULT_USER_SETTINGS[k]]

\* C20: the batch of a run is drained before its first search, and every new
\* deal of a search of user U has a duration above 0 and a price that is at
\* most the threshold of its duration under U's effective settings of that
\* moment (the notification lists exactly these deals).
C20_NotifiedDealsWithinThreshold ==
    /\ [](pc = "search" => batch = <<>>)
    /\ [][ Searching
           => LET U == Head(todo)
                  s == Effective(U)
                  new == search_for_user(U, state, cfg,
                                         Feed(searched'[Len(searched')].pattern, s),
                                         TRUE).new
              IN /\ notified' = Hashes(new)
                 /\ \A i \in DOMAIN new :
                       /\ new[i].duration_min > 0
                       /\ new[i].price
                            <= max_price_for_duration(new[i].duration_min, s) ]_vars

\* in the first run over the saved state, /price 60 of user 2 and the
\* approval of 3 were handled, then both were searched and notified: 2 is told
\* of the 50 EUR flight of 100 minutes that only her new base price admits,
\* 3 of the deals under the defaults
C20_Witness ==
    /\ pc = "search"
    /\ runs = 1
    /\ handled[1] = 1
    /\ handled[2] = 1
    /\ Len(searched) = 3
    /\ searched[2].chat_id = "2"
    /\ searched[2].outcome = "sent"
    /\ <<"VIE", 3, Today, 50>> \in Range(state.users["2"].sent_deals)
    /\ searched[3].chat_id = "3"
    /\ searched[3].outcome = "sent"
    /\ notified = << <<"BUD", 1, Today, 18>>, <<"BUD", 1, Today, 18>>,
                     <<"BUD", 2, Today, 35>> >>

\* the approved users of a stored document: none when no document is stored
\* or when it is a file of the single-user version
StoredUsers(store) ==
    IF store # <<>> /\ IsNewFormat(store[1]) THEN DOMAIN store[1].users ELSE {}

\* C21: no step removes a user from the state stored in the gist or in the
\* local file, and the state a run loads holds every user stored in either.
C21_ApprovalDurable ==
    /\ [][ /\ StoredUsers(gist) \subseteq StoredUsers(gist')
           /\ StoredUsers(file) \subseteq StoredUsers(file') ]_vars
    /\ [][ (pc = "idle" /\ pc' = "poll")
           => (StoredUsers(gist) \cup StoredUsers(file)) \subseteq DOMAIN state'.users
         ]_vars

====
